---- MODULE Spec2Model ----
(***************************************************************************)
(* wsl2-bridge-rs (src/main.rs): a relay between standard input/output and *)
(* either a TCP loopback socket announced by a GPG descriptor file         *)
(* (gpg_conn) or a Windows named pipe (connect_pipe, ssh_conn).            *)
(*                                                                         *)
(* Bytes are integers 0..255.  Sizes that are large in the program         *)
(* (64 KiB read blocks, the 8 KiB buffers of tokio's BufStream and         *)
(* io::copy) are scaled down; the 16-byte nonce keeps its size.            *)
(***************************************************************************)
EXTENDS Integers, Sequences, FiniteSets, TLC

VARIABLES
    \* ---- gpg_conn --------------------------------------------------------
    file_present,   \* the descriptor file can be opened
    file,           \* the bytes of the descriptor file
    gpc,            \* position of gpg_conn
    port_buf,       \* String filled by read_line
    nonce_buf,      \* [u8; 16]
    n,              \* bytes returned by buf.read(&mut nonce_buf); -1 before it
    port,           \* parsed u16; -1 before the parse or when it failed
    connect_log,    \* ports TcpStream::connect was called with, in order
    \* ---- connect_pipe ----------------------------------------------------
    poll, close_write, close_on_eof, close_on_stdin_eof,
    script,         \* outcomes of the first opens that fail; later opens succeed
    cpc,            \* position of connect_pipe / ssh_conn
    attempts,       \* ClientOptions::open calls made
    sleeps,         \* 50 ms sleeps of connect_pipe completed
    \* ---- the relay (both modes) -------------------------------------------
    stdin_data,     \* the bytes read from standard input so far
    wbuf,           \* write buffer of BufStream (pipe mode)
    tlog,           \* operations that reached the transport's write side
    peer_data,      \* everything the peer sends
    peer_closes,    \* the peer closes after peer_data (TCP end-of-stream)
    rd_pos,         \* bytes of peer_data already read from the transport
    stdout,         \* bytes written to standard output
    pcIn,           \* position of the stdin -> transport direction
    pcOut,          \* position of the transport -> stdout direction
    resIn, resOut,  \* result of each direction: "none", "Ok", "Err"
    probe_log,      \* outcomes of read_zero_probe, in order
    waits,          \* 50 ms sleeps of the probe loop completed
    out_err,        \* the I/O failure the transport -> stdout direction met, or "none"
    result          \* what main returns: "running", "Ok", "IO", "ParseInt", "InvalidNonce"

gpgVars   == <<file_present, file, gpc, port_buf, nonce_buf, n, port, connect_log>>
flagVars  == <<poll, close_write, close_on_eof, close_on_stdin_eof>>
connVars  == <<script, cpc, attempts, sleeps>>
inVars    == <<stdin_data, wbuf, pcIn, resIn>>
outVars   == <<peer_data, peer_closes, rd_pos, stdout, pcOut, resOut, probe_log, waits, out_err>>
vars      == <<gpgVars, flagVars, connVars, inVars, outVars, tlog, result>>

----------------------------------------------------------------------------
\* Bounds of the model.
MaxNonceSeg == 18   \* longest nonce segment of a descriptor file
MaxIn       == 3    \* longest standard input
MaxPeer     == 2    \* longest peer stream
MaxOpens    == 3    \* longest script of failing pipe opens
MaxProbes   == 2    \* successful zero-length probes before the pipe breaks
DEFAULT_BUF_SIZE == 2   \* tokio's buffer capacity (8 KiB), scaled

\* const BUF_SIZE: usize = 64 * 1024, scaled.
BUF_SIZE == 3

\* let mut nonce_buf = [0; 16];
NONCE_LEN == 16

\* u16::MAX
U16_MAX == 65535

Min(a, b) == IF a < b THEN a ELSE b

\* Concatenation of the data of the write operations in a transport log.
RECURSIVE Bytes(_)
Bytes(log) ==
    IF log = <<>> THEN <<>>
    ELSE Bytes(SubSeq(log, 1, Len(log) - 1)) \o log[Len(log)].data

WriteOp(d)  == [op |-> "write", data |-> d]
ZeroOp      == [op |-> "zero", data |-> <<>>]
ShutdownOp  == [op |-> "shutdown", data |-> <<>>]

----------------------------------------------------------------------------
\* The descriptor file and its parsing (gpg_conn, lines 85-95).

NL == 10

\* char::is_whitespace on the ASCII range, as used by str::trim.
IsWhitespace(b) == b \in {9, 10, 11, 12, 13, 32}

IsDigit(b) == b \in 48..57

\* Index of the first newline of s, or Len(s) when there is none:
\* read_line consumes the bytes up to and including it.
RECURSIVE LineEndFrom(_, _)
LineEndFrom(s, i) ==
    IF i > Len(s) THEN Len(s)
    ELSE IF s[i] = NL THEN i
    ELSE LineEndFrom(s, i + 1)

LineEnd(s) == LineEndFrom(s, 1)

\* buf.read_line(&mut port_buf): the line with its terminator.
ReadLine(s) == SubSeq(s, 1, LineEnd(s))

\* read_line fails with InvalidData when the line is not UTF-8.  The files of
\* this model hold no multi-byte sequence, so a line is UTF-8 iff it is ASCII.
Utf8Ok(s) == \A i \in 1..Len(s) : s[i] < 128

\* buf.read(&mut nonce_buf): at most 16 of the bytes after the line.
NonceCount(s) == Min(NONCE_LEN, Len(s) - LineEnd(s))

\* Mutant: the read starts at the line terminator instead of after it.
ReadNonceFromTerminator(s) ==
    [i \in 1..NONCE_LEN |->
        IF i <= NonceCount(s) THEN s[LineEnd(s) + i - 1] ELSE 0]

\* The buffer after the read: the bytes read, the rest still zero.
ReadNonce(s) ==
    [i \in 1..NONCE_LEN |->
        IF i <= NonceCount(s) THEN s[LineEnd(s) + i] ELSE 0]

RECURSIVE TrimStart(_)
TrimStart(s) ==
    IF s # <<>> /\ IsWhitespace(s[1]) THEN TrimStart(Tail(s)) ELSE s

RECURSIVE TrimEnd(_)
TrimEnd(s) ==
    IF s # <<>> /\ IsWhitespace(s[Len(s)])
    THEN TrimEnd(SubSeq(s, 1, Len(s) - 1)) ELSE s

trim(s) == TrimEnd(TrimStart(s))

\* Accumulate decimal digits; -1 on a non-digit or on overflow of u16.
RECURSIVE ParseDigits(_, _)
ParseDigits(s, acc) ==
    IF s = <<>> THEN acc
    ELSE IF ~IsDigit(s[1]) THEN -1
    ELSE IF acc * 10 + (s[1] - 48) > U16_MAX THEN -1
    ELSE ParseDigits(Tail(s), acc * 10 + (s[1] - 48))

\* str::parse::<u16>: an optional '+', then at least one digit; -1 is Err.
parse_u16(s) ==
    IF s = <<>> THEN -1
    ELSE IF s[1] \in {43, 45} /\ Len(s) = 1 THEN -1
    ELSE IF s[1] = 43 THEN ParseDigits(Tail(s), 0)
    ELSE ParseDigits(s, 0)

----------------------------------------------------------------------------
\* Inputs: descriptor files, standard input, the peer's stream.

RECURSIVE ToDecimal(_)
ToDecimal(p) ==
    IF p < 10 THEN <<48 + p>> ELSE ToDecimal(p \div 10) \o <<48 + (p % 10)>>

Ports == {0, 80, U16_MAX}

\* A descriptor as gpg-agent writes it: the port, a newline, the nonce.
Descriptor(p, nonce) == ToDecimal(p) \o <<NL>> \o nonce

\* Raw bytes; with seed 3 the first one is a newline, with seed 200 they are
\* not ASCII.
NonceSeg(len, seed) == [i \in 1..len |-> (seed + 7 * i) % 256]

NonceSeeds == {3, 200}

NonceSegs == {NonceSeg(len, seed) : len \in 0..MaxNonceSeg, seed \in NonceSeeds}

PortLines ==
    {ToDecimal(p) \o <<NL>> : p \in Ports}
    \cup { <<48>> \o ToDecimal(80) \o <<NL>>,       \* "080\n"
           ToDecimal(80) \o <<13, NL>>,             \* "80\r\n"
           ToDecimal(U16_MAX + 1) \o <<NL>>,        \* "65536\n"
           <<43>> \o ToDecimal(80) \o <<NL>>,       \* "+80\n"
           <<120, NL>>,                             \* "x\n"
           <<NL>>,                                  \* "\n"
           <<255, NL>>,                             \* not UTF-8
           ToDecimal(80) }                          \* no newline

DescriptorFiles == {l \o s : l \in PortLines, s \in NonceSegs}

\* The next k bytes of standard input: the stream 1, 2, 3, ...
StdinChunk(k) == [i \in 1..k |-> Len(stdin_data) + i]

PeerStream(len) == [i \in 1..len |-> 100 + i]

\* Mutant: the whole buffer is written, not only the n bytes just read.
PeerChunkWholeBuf(k) ==
    [i \in 1..BUF_SIZE |-> IF i <= k THEN peer_data[rd_pos + i] ELSE 0]

\* &buf[..n] after a transport read of n = k bytes.
PeerChunk(k) == SubSeq(peer_data, rd_pos + 1, rd_pos + k)

IoOutcomes == {"ok", "err"}

----------------------------------------------------------------------------
\* gpg_conn (lines 75-116)

InitRelay ==
    /\ stdin_data = <<>>
    /\ wbuf = <<>>
    /\ tlog = <<>>
    /\ \E len \in 0..MaxPeer : peer_data = PeerStream(len)
    /\ rd_pos = 0
    /\ stdout = <<>>
    /\ pcIn = "idle" /\ pcOut = "idle"
    /\ resIn = "none" /\ resOut = "none"
    /\ probe_log = <<>>
    /\ waits = 0
    /\ out_err = "none"
    /\ result = "running"

InitGpg ==
    /\ \/ file_present = TRUE /\ file \in DescriptorFiles
       \/ file_present = FALSE /\ file = <<>>
    /\ gpc = "open"
    /\ port_buf = <<>>
    /\ nonce_buf = [i \in 1..NONCE_LEN |-> 0]
    /\ n = -1
    /\ port = -1
    /\ connect_log = <<>>
    /\ poll = FALSE /\ close_write = FALSE
    /\ close_on_eof = FALSE /\ close_on_stdin_eof = FALSE
    /\ script = <<>> /\ cpc = "unused" /\ attempts = 0 /\ sleeps = 0
    /\ peer_closes \in BOOLEAN
    /\ InitRelay

\* return Err(e) / the `?` operator in gpg_conn
GpgFail(e) ==
    /\ gpc' = "returned"
    /\ result' = e

\* tokio::fs::File::open(socket_file_path).await.map_err(Error::IO)?
gpg_open ==
    /\ gpc = "open"
    /\ IF file_present
       THEN gpc' = "read_line" /\ result' = result
       ELSE GpgFail("IO")
    /\ UNCHANGED <<file_present, file, port_buf, nonce_buf, n, port, connect_log>>
    /\ UNCHANGED <<flagVars, connVars, inVars, outVars, tlog>>

\* buf.read_line(&mut port_buf).await.map_err(Error::IO)?
gpg_read_line ==
    /\ gpc = "read_line"
    /\ IF Utf8Ok(ReadLine(file))
       THEN /\ port_buf' = ReadLine(file)
            /\ gpc' = "read_nonce"
            /\ result' = result
       ELSE /\ GpgFail("IO")
            /\ port_buf' = port_buf
    /\ UNCHANGED <<file_present, file, nonce_buf, n, port, connect_log>>
    /\ UNCHANGED <<flagVars, connVars, inVars, outVars, tlog>>

\* let n = buf.read(&mut nonce_buf)...; if n > 16 { return Err(InvalidNonce(n)) }
gpg_read_nonce ==
    /\ gpc = "read_nonce"
    /\ n' = NonceCount(file)
    /\ nonce_buf' = ReadNonce(file)
    /\ IF n' > NONCE_LEN
       THEN GpgFail("InvalidNonce")
       ELSE gpc' = "parse" /\ result' = result
    /\ UNCHANGED <<file_present, file, port_buf, port, connect_log>>
    /\ UNCHANGED <<flagVars, connVars, inVars, outVars, tlog>>

\* let port: u16 = port_buf.trim().parse().map_err(Error::ParseInt)?
gpg_parse_port ==
    /\ gpc = "parse"
    /\ port' = parse_u16(trim(port_buf))
    /\ IF port' = -1
       THEN GpgFail("ParseInt")
       ELSE gpc' = "connect" /\ result' = result
    /\ UNCHANGED <<file_present, file, port_buf, nonce_buf, n, connect_log>>
    /\ UNCHANGED <<flagVars, connVars, inVars, outVars, tlog>>

\* TcpStream::connect(format!("localhost:{}", port)).await.map_err(Error::IO)?
gpg_connect ==
    /\ gpc = "connect"
    /\ connect_log' = Append(connect_log, port)
    /\ \E outcome \in IoOutcomes :
         IF outcome = "ok"
         THEN gpc' = "handshake" /\ result' = result
         ELSE GpgFail("IO")
    /\ UNCHANGED <<file_present, file, port_buf, nonce_buf, n, port>>
    /\ UNCHANGED <<flagVars, connVars, inVars, outVars, tlog>>

\* Mutant: only the n bytes the read returned are written.
HandshakePayloadRead == SubSeq(nonce_buf, 1, n)

\* What stream.write(&nonce_buf) hands to the connection.
HandshakePayload == nonce_buf

\* stream.write(&nonce_buf).await.map_err(Error::IO)?; then the relay starts.
\* The send buffer of the fresh connection takes the 16 bytes whole.
gpg_handshake ==
    /\ gpc = "handshake"
    /\ \E outcome \in IoOutcomes :
         IF outcome = "ok"
         THEN /\ tlog' = Append(tlog, WriteOp(HandshakePayload))
              /\ gpc' = "relay"
              /\ pcIn' = "copy" /\ pcOut' = "copy"
              /\ result' = result
         ELSE /\ GpgFail("IO")
              /\ UNCHANGED <<tlog, pcIn, pcOut>>
    /\ UNCHANGED <<file_present, file, port_buf, nonce_buf, n, port, connect_log>>
    /\ UNCHANGED <<flagVars, connVars>>
    /\ UNCHANGED <<stdin_data, wbuf, resIn>>
    /\ UNCHANGED <<peer_data, peer_closes, rd_pos, stdout, resOut, probe_log, waits, out_err>>

\* tokio::select! (lines 110-115): the first direction to finish ends the
\* session, its result is dropped, and gpg_conn returns Ok(()).
GpgSelectDone ==
    /\ gpc' = "returned"
    /\ result' = "Ok"

\* reader: io::copy(&mut stdin, &mut stream_out), one read and its write
gpg_reader ==
    /\ gpc = "relay" /\ pcIn = "copy"
    /\ \/ \E k \in 1..Min(DEFAULT_BUF_SIZE, MaxIn - Len(stdin_data)) :
            /\ stdin_data' = stdin_data \o StdinChunk(k)
            /\ \E outcome \in IoOutcomes :
                 IF outcome = "ok"
                 THEN /\ tlog' = Append(tlog, WriteOp(StdinChunk(k)))
                      /\ UNCHANGED <<pcIn, resIn, gpc, result>>
                 ELSE /\ pcIn' = "done" /\ resIn' = "Err"
                      /\ GpgSelectDone
                      /\ tlog' = tlog
       \/ \E r \in {"Ok", "Err"} :       \* end of input, or a failed read
            /\ pcIn' = "done" /\ resIn' = r
            /\ GpgSelectDone
            /\ UNCHANGED <<stdin_data, tlog>>
    /\ UNCHANGED <<file_present, file, port_buf, nonce_buf, n, port, connect_log>>
    /\ UNCHANGED <<flagVars, connVars, outVars, wbuf>>

\* Mutant: the last byte of the block is not written.
StdoutWriteShort(chunk) == stdout \o SubSeq(chunk, 1, Len(chunk) - 1)

\* Standard output after the block read from the transport is written to it.
StdoutWrite(chunk) == stdout \o chunk

\* writer: io::copy(&mut stream_in, &mut stdout), one read and its write
gpg_writer ==
    /\ gpc = "relay" /\ pcOut = "copy"
    /\ \/ \E k \in 1..Min(DEFAULT_BUF_SIZE, Len(peer_data) - rd_pos) :
            /\ rd_pos' = rd_pos + k
            /\ \E outcome \in IoOutcomes :
                 IF outcome = "ok"
                 THEN /\ stdout' = StdoutWrite(PeerChunk(k))
                      /\ UNCHANGED <<pcOut, resOut, gpc, result, out_err>>
                 ELSE /\ pcOut' = "done" /\ resOut' = "Err"
                      /\ out_err' = "stdout_write"
                      /\ GpgSelectDone
                      /\ \E j \in 0..(k - 1) :          \* the write fails part-way
                           stdout' = StdoutWrite(SubSeq(PeerChunk(k), 1, j))
       \/ /\ rd_pos = Len(peer_data) /\ peer_closes    \* read returns 0
          /\ pcOut' = "done" /\ resOut' = "Ok"
          /\ GpgSelectDone
          /\ UNCHANGED <<rd_pos, stdout, out_err>>
       \/ /\ pcOut' = "done" /\ resOut' = "Err"         \* a failed read
          /\ out_err' = "read_other"
          /\ GpgSelectDone
          /\ UNCHANGED <<rd_pos, stdout>>
    /\ UNCHANGED <<file_present, file, port_buf, nonce_buf, n, port, connect_log>>
    /\ UNCHANGED <<flagVars, connVars, inVars, tlog>>
    /\ UNCHANGED <<peer_data, peer_closes, probe_log, waits>>

NextGpg ==
    \/ gpg_open
    \/ gpg_read_line
    \/ gpg_read_nonce
    \/ gpg_parse_port
    \/ gpg_connect
    \/ gpg_handshake
    \/ gpg_reader
    \/ gpg_writer

SpecGpg == InitGpg /\ [][NextGpg]_vars

----------------------------------------------------------------------------
\* connect_pipe (lines 118-129)

OpenFailures == {"busy", "notfound", "other"}

\* Scripts of at most len failing opens.
RECURSIVE Scripts(_)
Scripts(len) ==
    IF len = 0 THEN {<<>>}
    ELSE Scripts(len - 1)
         \cup {Append(sc, o) : sc \in {x \in Scripts(len - 1) : Len(x) = len - 1},
                               o \in OpenFailures}

\* Outcome of the i-th ClientOptions::new().open(pipe_name).
OpenOutcome(i) == IF i <= Len(script) THEN script[i] ELSE "ok"

\* Mutant: ERROR_PIPE_BUSY is not recognised and falls to the last arm.
OpenArmBusyFatal(outcome) ==
    IF outcome = "ok" THEN "connected"
    ELSE IF outcome = "notfound" /\ poll THEN "retry"
    ELSE "fail"

\* Mutant: the not-found arm forgets the poll flag.
OpenArmIgnoresPoll(outcome) ==
    IF outcome = "ok" THEN "connected"
    ELSE IF outcome = "busy" THEN "retry"
    ELSE IF outcome = "notfound" THEN "retry"
    ELSE "fail"

\* The match on the open's result (lines 120-125).
OpenArm(outcome) ==
    IF outcome = "ok" THEN "connected"
    ELSE IF outcome = "busy" THEN "retry"
    ELSE IF outcome = "notfound" /\ poll THEN "retry"
    ELSE "fail"

InitConnVars ==
    /\ cpc = "attempting"
    /\ attempts = 0
    /\ sleeps = 0

InitGpgUnused ==
    /\ file_present = FALSE /\ file = <<>>
    /\ gpc = "unused"
    /\ port_buf = <<>>
    /\ nonce_buf = [i \in 1..NONCE_LEN |-> 0]
    /\ n = -1
    /\ port = -1
    /\ connect_log = <<>>

\* connect_pipe on its own: every script, every poll.
InitConnect ==
    /\ poll \in BOOLEAN
    /\ close_write = FALSE /\ close_on_eof = FALSE /\ close_on_stdin_eof = FALSE
    /\ script \in Scripts(MaxOpens)
    /\ InitConnVars
    /\ InitGpgUnused
    /\ peer_data = <<>>
    /\ peer_closes = FALSE
    /\ InitRelay

\* One iteration of the loop up to the sleep: the open and the match on it.
\* Ok(client) returns to ssh_conn, which starts both directions (lines
\* 138-141, 200); an error returns through `?` on line 138.
connect_pipe_open ==
    /\ cpc = "attempting"
    /\ attempts' = attempts + 1
    /\ LET arm == OpenArm(OpenOutcome(attempts + 1)) IN
         \/ /\ arm = "connected"
            /\ cpc' = "connected"
            /\ pcIn' = "read" /\ pcOut' = "read"
            /\ result' = result
         \/ /\ arm = "retry"
            /\ cpc' = "sleeping"
            /\ UNCHANGED <<pcIn, pcOut, result>>
         \/ /\ arm = "fail"
            /\ cpc' = "failed"
            /\ result' = "IO"
            /\ UNCHANGED <<pcIn, pcOut>>
    /\ UNCHANGED <<script, sleeps>>
    /\ UNCHANGED <<gpgVars, flagVars, tlog>>
    /\ UNCHANGED <<stdin_data, wbuf, resIn>>
    /\ UNCHANGED <<peer_data, peer_closes, rd_pos, stdout, resOut, probe_log, waits, out_err>>

\* tokio::time::sleep(Duration::from_millis(50)).await, then loop
connect_pipe_sleep ==
    /\ cpc = "sleeping"
    /\ sleeps' = sleeps + 1
    /\ cpc' = "attempting"
    /\ UNCHANGED <<script, attempts>>
    /\ UNCHANGED <<gpgVars, flagVars, inVars, outVars, tlog, result>>

NextConnect ==
    \/ connect_pipe_open
    \/ connect_pipe_sleep

SpecConnect == InitConnect /\ [][NextConnect]_vars

\* The loop is the only thing the task runs: an open or a sleep that can
\* complete does.
FairSpecConnect == SpecConnect /\ WF_vars(NextConnect)

----------------------------------------------------------------------------
\* ssh_conn (lines 131-206)

InitPipe ==
    /\ poll \in BOOLEAN
    /\ close_write \in BOOLEAN
    /\ close_on_eof \in BOOLEAN
    /\ close_on_stdin_eof \in BOOLEAN
    /\ script \in Scripts(1)
    /\ InitConnVars
    /\ InitGpgUnused
    /\ peer_closes = FALSE
    /\ InitRelay

Running == cpc = "connected" /\ result = "running"

\* Mutant: ssh_conn waits for both directions, as try_join would: an error
\* returns at once, a success only when the other direction has ended too.
SshResultJoin(r) ==
    IF r # "Ok" THEN "IO"
    ELSE IF pcIn = "done" \/ pcOut = "done" THEN "Ok"
    ELSE "running"

\* tokio::select! with `res?` (lines 200-205): the first direction to finish
\* ends ssh_conn with its result.
SshResult(r) == IF r = "Ok" THEN "Ok" ELSE "IO"

\* BufWriter::poll_write under write_all (np_writer is a BufStream half):
\* the buffer is flushed when the block does not fit, a block of at least
\* the capacity goes straight to the pipe, a smaller one is only buffered.
BufNeedsFlush(chunk) == Len(wbuf) + Len(chunk) > DEFAULT_BUF_SIZE

LogAfterFlush(chunk) ==
    IF BufNeedsFlush(chunk) /\ wbuf # <<>> THEN Append(tlog, WriteOp(wbuf)) ELSE tlog

BufAfterFlush(chunk) == IF BufNeedsFlush(chunk) THEN <<>> ELSE wbuf

LogAfterWrite(chunk) ==
    IF Len(chunk) >= DEFAULT_BUF_SIZE
    THEN Append(LogAfterFlush(chunk), WriteOp(chunk))
    ELSE LogAfterFlush(chunk)

BufAfterWrite(chunk) ==
    IF Len(chunk) >= DEFAULT_BUF_SIZE
    THEN BufAfterFlush(chunk)
    ELSE BufAfterFlush(chunk) \o chunk

\* Mutant: the empty message is sent when close_write is not set.
EofSendsZeroInverted == ~close_write

\* if close_write { write_zero_byte_message(raw_handle)...? } (line 153)
EofSendsZero == close_write

\* stdin_to_pipe: one stdin.read and the match arm it selects (lines 147-161)
stdin_to_pipe_read ==
    /\ Running /\ pcIn = "read"
    /\ \/ \E k \in 1..Min(BUF_SIZE, MaxIn - Len(stdin_data)) :        \* n => write_all
            /\ stdin_data' = stdin_data \o StdinChunk(k)
            /\ \/ /\ tlog' = LogAfterWrite(StdinChunk(k))
                  /\ wbuf' = BufAfterWrite(StdinChunk(k))
                  /\ UNCHANGED <<pcIn, resIn, result>>
               \/ /\ LogAfterWrite(StdinChunk(k)) # tlog                \* a pipe write fails
                  /\ pcIn' = "done" /\ resIn' = "Err"
                  /\ result' = SshResult("Err")
                  /\ UNCHANGED <<tlog, wbuf>>
       \/ /\ close_on_stdin_eof                                         \* 0 => break
          /\ pcIn' = "done" /\ resIn' = "Ok"
          /\ result' = SshResult("Ok")
          /\ UNCHANGED <<stdin_data, tlog, wbuf>>
       \/ /\ ~close_on_stdin_eof                                        \* 0 => signal the pipe
          /\ IF EofSendsZero
             THEN \E outcome \in IoOutcomes :
                    IF outcome = "ok"
                    THEN /\ tlog' = Append(tlog, ZeroOp)
                         /\ pcIn' = "shutdown"
                         /\ UNCHANGED <<resIn, result>>
                    ELSE /\ pcIn' = "done" /\ resIn' = "Err"
                         /\ result' = SshResult("Err")
                         /\ tlog' = tlog
             ELSE /\ pcIn' = "shutdown"
                  /\ UNCHANGED <<tlog, resIn, result>>
          /\ UNCHANGED <<stdin_data, wbuf>>
       \/ /\ pcIn' = "done" /\ resIn' = "Err"                           \* stdin.read fails
          /\ result' = SshResult("Err")
          /\ UNCHANGED <<stdin_data, tlog, wbuf>>
    /\ UNCHANGED <<gpgVars, flagVars, connVars, outVars>>

\* np_writer.shutdown().await (line 157): BufWriter flushes its buffer, then
\* the pipe's shutdown is called; break; Ok(())
stdin_to_pipe_shutdown ==
    /\ Running /\ pcIn = "shutdown"
    /\ \/ /\ tlog' = (IF wbuf # <<>> THEN Append(tlog, WriteOp(wbuf)) ELSE tlog)
                     \o <<ShutdownOp>>
          /\ wbuf' = <<>>
          /\ pcIn' = "done" /\ resIn' = "Ok"
          /\ result' = SshResult("Ok")
       \/ /\ pcIn' = "done" /\ resIn' = "Err"                           \* flush or shutdown fails
          /\ result' = SshResult("Err")
          /\ UNCHANGED <<tlog, wbuf>>
    /\ stdin_data' = stdin_data
    /\ UNCHANGED <<gpgVars, flagVars, connVars, outVars>>

ReadErrors == {"broken_pipe", "not_connected", "other"}

\* The failure of np_reader.read with OS error class e, as out_err records it.
ReadFailure(e) ==
    IF e = "broken_pipe" THEN "read_broken_pipe"
    ELSE IF e = "not_connected" THEN "read_not_connected"
    ELSE "read_other"

\* Mutant: only ERROR_BROKEN_PIPE is taken as a disconnect.
ReadErrArmBrokenOnly(e) == IF e = "broken_pipe" THEN "Ok" ELSE "Err"

\* The match on the error of np_reader.read (lines 180-183).
ReadErrArm(e) == IF e \in {"broken_pipe", "not_connected"} THEN "Ok" ELSE "Err"

\* pipe_to_stdout: one np_reader.read and the match arm it selects (lines 171-184)
pipe_to_stdout_read ==
    /\ Running /\ pcOut = "read"
    /\ \/ \E k \in 1..Min(BUF_SIZE, Len(peer_data) - rd_pos) :        \* Ok(n) => write_all
            /\ rd_pos' = rd_pos + k
            /\ \E outcome \in IoOutcomes :
                 IF outcome = "ok"
                 THEN /\ stdout' = StdoutWrite(PeerChunk(k))
                      /\ UNCHANGED <<pcOut, resOut, result, out_err>>
                 ELSE /\ pcOut' = "done" /\ resOut' = "Err"
                      /\ out_err' = "stdout_write"
                      /\ result' = SshResult("Err")
                      /\ \E j \in 0..(k - 1) :          \* write_all fails part-way
                           stdout' = StdoutWrite(SubSeq(PeerChunk(k), 1, j))
       \/ /\ IF close_on_eof                                            \* Ok(0)
             THEN /\ pcOut' = "done" /\ resOut' = "Ok"
                  /\ result' = SshResult("Ok")
             ELSE /\ pcOut' = "probe"
                  /\ UNCHANGED <<resOut, result>>
          /\ UNCHANGED <<rd_pos, stdout, out_err>>
       \/ \E e \in ReadErrors :                                         \* Err(e)
            /\ out_err' = ReadFailure(e)
            /\ pcOut' = "done" /\ resOut' = ReadErrArm(e)
            /\ result' = SshResult(ReadErrArm(e))
            /\ UNCHANGED <<rd_pos, stdout>>
    /\ UNCHANGED <<peer_data, peer_closes, probe_log, waits>>
    /\ UNCHANGED <<gpgVars, flagVars, connVars, inVars, tlog>>

\* Results of read_zero_probe: Ok(()), or the last OS error by class.
ProbeOutcomes == {"ok", "broken_pipe", "not_connected", "other"}

\* Mutant: a broken pipe seen by the probe is reported as an error.
ProbeArmBrokenFatal(o) ==
    IF o = "ok" THEN "sleep" ELSE "Err"

\* Mutant: a successful probe ends the direction instead of sleeping.
ProbeArmOkEnds(o) ==
    IF o \in {"ok", "broken_pipe"} THEN "Ok" ELSE "Err"

\* The match on read_zero_probe's result (lines 188-196).
ProbeArm(o) ==
    IF o = "ok" THEN "sleep"
    ELSE IF o = "broken_pipe" THEN "Ok"
    ELSE "Err"

\* One read_zero_probe(raw_handle) and the match arm it selects.
pipe_to_stdout_probe ==
    /\ Running /\ pcOut = "probe"
    /\ \E o \in ProbeOutcomes :
         /\ o = "ok" => Len(probe_log) < MaxProbes
         /\ probe_log' = Append(probe_log, o)
         /\ IF ProbeArm(o) = "sleep"
            THEN /\ pcOut' = "sleep"
                 /\ UNCHANGED <<resOut, result>>
            ELSE /\ pcOut' = "done" /\ resOut' = ProbeArm(o)
                 /\ result' = SshResult(ProbeArm(o))
    /\ UNCHANGED <<peer_data, peer_closes, rd_pos, stdout, waits, out_err>>
    /\ UNCHANGED <<gpgVars, flagVars, connVars, inVars, tlog>>

\* Mutant: after the sleep the direction goes back to the read loop.
AfterProbeSleepRereads == "read"

\* Where the Ok(()) arm continues after its sleep: the inner `loop` of lines
\* 187-197, that is the next probe.
AfterProbeSleep == "probe"

\* tokio::time::sleep(Duration::from_millis(50)).await (line 189), then loop
pipe_to_stdout_sleep ==
    /\ Running /\ pcOut = "sleep"
    /\ waits' = waits + 1
    /\ pcOut' = AfterProbeSleep
    /\ UNCHANGED <<peer_data, peer_closes, rd_pos, stdout, resOut, probe_log, out_err>>
    /\ UNCHANGED <<gpgVars, flagVars, connVars, inVars, tlog, result>>

NextPipe ==
    \/ connect_pipe_open
    \/ connect_pipe_sleep
    \/ stdin_to_pipe_read
    \/ stdin_to_pipe_shutdown
    \/ pipe_to_stdout_read
    \/ pipe_to_stdout_probe
    \/ pipe_to_stdout_sleep

SpecPipe == InitPipe /\ [][NextPipe]_vars

\* The select polls stdin_to_pipe whenever it can make progress: after
\* end-of-input its remaining step, np_writer.shutdown(), needs no input, and
\* it completes (with success or with an error). Nothing is assumed of
\* pipe_to_stdout, which may stay blocked in its read or keep probing.
FairSpecPipe == SpecPipe /\ WF_vars(stdin_to_pipe_shutdown)

----------------------------------------------------------------------------
\* Properties of gpg_conn.

Errors == {"IO", "ParseInt", "InvalidNonce"}

\* Bytes of the descriptor file after the port line.
NonceSegLen == Len(file) - LineEnd(file)

IsPrefix(s, t) == Len(s) <= Len(t) /\ s = SubSeq(t, 1, Len(s))

\* C3: once the nonce has been read from a descriptor whose nonce segment
\* holds more than 16 bytes, gpg_conn has failed with InvalidNonce and has
\* sent no (truncated) nonce.
C3_OversizedNonceRejected ==
    (n >= 0 /\ NonceSegLen > NONCE_LEN) =>
        (result = "InvalidNonce" /\ tlog = <<>>)

\* C4: once the nonce read has returned a count other than 16, gpg_conn has
\* failed with a fatal error and no handshake is ever sent.
C4_NonceCountMustBe16 ==
    (n >= 0 /\ n # NONCE_LEN) =>
        (result \in Errors /\ tlog = <<>>)

\* C5: for a valid descriptor (decimal port, newline, exactly 16 raw bytes)
\* the read returns 16 and fills nonce_buf with those bytes, the parse yields
\* that port, every connect goes to it, the first payload on the connection
\* is those 16 bytes, and resolution fails only if connect or the handshake
\* write fails.
C5_ValidDescriptorExtracted ==
    \A p \in Ports, seed \in NonceSeeds :
        (file_present /\ file = Descriptor(p, NonceSeg(NONCE_LEN, seed))) =>
            /\ n >= 0 => (n = NONCE_LEN /\ nonce_buf = NonceSeg(NONCE_LEN, seed))
            /\ gpc \in {"connect", "handshake", "relay"} => port = p
            /\ \A i \in 1..Len(connect_log) : connect_log[i] = p
            /\ tlog # <<>> => tlog[1] = WriteOp(NonceSeg(NONCE_LEN, seed))
            /\ result \notin {"ParseInt", "InvalidNonce"}
            /\ result = "IO" => connect_log = <<p>>

C5_Witness ==
    /\ file = Descriptor(U16_MAX, NonceSeg(NONCE_LEN, 200))
    /\ gpc = "relay"
    /\ port = U16_MAX
    /\ connect_log = <<U16_MAX>>
    /\ tlog = <<WriteOp(NonceSeg(NONCE_LEN, 200))>>

\* C10 as stated: when the peer sends its bytes and closes, and no read or
\* write fails, a session that has returned has put exactly the peer's bytes
\* on standard output and returned success.
C10_Original ==
    (gpc = "returned" /\ pcIn # "idle" /\ peer_closes
        /\ resIn # "Err" /\ resOut # "Err") =>
        (stdout = peer_data /\ result = "Ok")

\* C10 amended: when the peer sends its bytes and closes, standard output
\* always holds a prefix of them, a session that has returned after the relay
\* started returned success, and standard output holds exactly the peer's
\* bytes when the session ended by the transport-to-output direction reaching
\* end-of-stream.
C10_TcpEndToEnd ==
    (pcIn # "idle" /\ peer_closes) =>
        /\ IsPrefix(stdout, peer_data)
        /\ gpc = "returned" => result = "Ok"
        /\ resOut = "Ok" => stdout = peer_data

C10_Witness ==
    /\ gpc = "returned" /\ peer_closes
    /\ peer_data = PeerStream(MaxPeer)
    /\ resOut = "Ok" /\ resIn = "none"
    /\ stdout = peer_data
    /\ result = "Ok"

----------------------------------------------------------------------------
\* Properties of connect_pipe.

AllBusy(sc) == \A i \in 1..Len(sc) : sc[i] = "busy"

\* Outcome of the latest open, "none" before the first.
LastOpen == IF attempts = 0 THEN "none" ELSE OpenOutcome(attempts)

\* C6: when the opens report busy K times and then succeed, connect_pipe
\* eventually returns the handle, and has then made exactly K+1 opens and K
\* sleeps; a sleep separates any two consecutive opens and no open follows
\* the successful one.
C6_BusyRetry ==
    /\ [](/\ cpc = "attempting" => sleeps = attempts
          /\ cpc \in {"sleeping", "connected", "failed"} => sleeps = attempts - 1
          /\ (AllBusy(script) /\ cpc = "connected") =>
                (attempts = Len(script) + 1 /\ sleeps = Len(script)))
    /\ [][cpc = "connected" => (attempts' = attempts /\ cpc' = "connected")]_vars
    /\ (AllBusy(script) ~> cpc = "connected")

C6_Witness ==
    /\ script = <<"busy", "busy", "busy">>
    /\ cpc = "connected"
    /\ attempts = 4
    /\ sleeps = 3

\* C7: without poll the first not-found open is fatal at once (every earlier
\* open was busy, and connect_pipe has failed with the I/O error); with poll
\* a not-found open is always followed by a retry, and connect_pipe fails
\* only on an open error that is neither busy nor not-found.
C7_PollVersusStrict ==
    /\ (~poll /\ LastOpen = "notfound") => (cpc = "failed" /\ result = "IO")
    /\ ~poll => \A i \in 1..(attempts - 1) : OpenOutcome(i) = "busy"
    /\ (poll /\ LastOpen = "notfound") =>
          (cpc \in {"sleeping", "attempting"} /\ result = "running")
    /\ poll => \A i \in 1..(attempts - 1) : OpenOutcome(i) \in {"busy", "notfound"}
    /\ (poll /\ cpc = "failed") => LastOpen = "other"
    /\ cpc = "failed" => (result = "IO" /\ LastOpen \in {"notfound", "other"})

C7_Witness ==
    /\ poll
    /\ script = <<"notfound", "notfound", "other">>
    /\ cpc = "failed"
    /\ attempts = 3
    /\ sleeps = 2

----------------------------------------------------------------------------
\* Properties of the relay of ssh_conn.

IsControl(o) == o.op # "write"

\* The zero-length messages and shutdowns in a transport log, in order.
ControlOps(log) == SelectSeq(log, IsControl)

\* The operations §4.3 prescribes on end of input.
EofPolicy ==
    IF close_on_stdin_eof THEN <<>>
    ELSE IF close_write THEN <<ZeroOp, ShutdownOp>>
    ELSE <<ShutdownOp>>

\* C1 as stated: the bytes that reached the pipe are a prefix of the bytes
\* read from standard input, and once the input-to-transport direction has
\* ended successfully (after end of input) they are all of them.
C1_StdinFidelity ==
    /\ IsPrefix(Bytes(tlog), stdin_data)
    /\ (pcIn = "done" /\ resIn = "Ok") => Bytes(tlog) = stdin_data

\* C2: standard output always holds a prefix of the bytes read from the
\* pipe, in order; it holds all of them whenever the direction is about to
\* read again, has left the read loop, or has ended successfully.
C2_TransportFidelity ==
    /\ IsPrefix(stdout, SubSeq(peer_data, 1, rd_pos))
    /\ pcOut \in {"read", "probe", "sleep"} => stdout = SubSeq(peer_data, 1, rd_pos)
    /\ resOut = "Ok" => stdout = SubSeq(peer_data, 1, rd_pos)

C2_Witness ==
    /\ pcOut = "read"
    /\ rd_pos = MaxPeer
    /\ stdout = PeerStream(MaxPeer)

\* C8: before end of input no zero-length message or shutdown is issued; a
\* direction that ended successfully issued exactly the sequence its flags
\* select; between the two steps only the zero-length message (if selected)
\* has been issued; and the pending shutdown can always complete, which
\* ends the direction.
C8_EofPolicy ==
    /\ pcIn = "read" => ControlOps(tlog) = <<>>
    /\ pcIn = "shutdown" =>
          /\ ~close_on_stdin_eof
          /\ ControlOps(tlog) = (IF close_write THEN <<ZeroOp>> ELSE <<>>)
          /\ Running => ENABLED stdin_to_pipe_shutdown
    /\ (pcIn = "done" /\ resIn = "Ok") => ControlOps(tlog) = EofPolicy
    /\ IsPrefix(ControlOps(tlog), EofPolicy)

C8_Witness ==
    /\ close_write /\ ~close_on_stdin_eof
    /\ pcIn = "done" /\ resIn = "Ok"
    /\ stdin_data # <<>>
    /\ ControlOps(tlog) = <<ZeroOp, ShutdownOp>>
    /\ result = "Ok"

\* C9: a probe is only made with close_on_eof unset; a probe that fails
\* with broken-pipe ends the direction and the session successfully; every
\* probe before the latest one succeeded and was followed by exactly one
\* wait, and no wait or probe follows a failed probe.
C9_RemoteDisconnect ==
    /\ probe_log # <<>> => ~close_on_eof
    /\ \A i \in 1..(Len(probe_log) - 1) : probe_log[i] = "ok"
    /\ (probe_log # <<>> /\ probe_log[Len(probe_log)] = "broken_pipe") =>
          (pcOut = "done" /\ resOut = "Ok" /\ result = "Ok"
             /\ waits = Len(probe_log) - 1)
    /\ (probe_log # <<>> /\ probe_log[Len(probe_log)] = "ok") =>
          \/ pcOut = "sleep" /\ waits = Len(probe_log) - 1
          \/ pcOut = "probe" /\ waits = Len(probe_log)

C9_Witness ==
    /\ ~close_on_eof
    /\ probe_log = <<"ok", "ok", "broken_pipe">>
    /\ waits = 2
    /\ pcOut = "done" /\ resOut = "Ok"
    /\ result = "Ok"

----------------------------------------------------------------------------
\* Error propagation.

\* C11: once a relay direction has ended with a read or write failure, the
\* session has returned an error, never success.
C11_NoPartialSuccess ==
    (resIn = "Err" \/ resOut = "Err") => result \in Errors

\* C12: connect_pipe never fails on a busy open, nor under poll on a
\* not-found open; and a broken-pipe or not-connected failure met by the
\* transport-to-output direction, on its read or on a zero-length probe, ends
\* that direction successfully and the session without an error.
C12_BenignNeverErrors ==
    /\ cpc = "failed" => LastOpen # "busy"
    /\ (cpc = "failed" /\ poll) => LastOpen # "notfound"
    /\ out_err \in {"read_broken_pipe", "read_not_connected"} =>
          (resOut = "Ok" /\ result = "Ok")
    /\ (probe_log # <<>>
          /\ probe_log[Len(probe_log)] \in {"broken_pipe", "not_connected"}) =>
          (resOut = "Ok" /\ result = "Ok")

----------------------------------------------------------------------------
\* The select over the two directions.

SessionOver == result # "running"

\* What the relay has read and written.
relayIo == <<stdin_data, wbuf, tlog, rd_pos, stdout, probe_log, waits>>

\* C13: the session has returned as soon as a direction has ended; the other
\* direction has then not ended and reads and writes nothing more; and the
\* session's result is the result of the direction that ended.
C13_FirstToFinish ==
    /\ []((pcIn = "done" \/ pcOut = "done") => SessionOver)
    /\ [](~(pcIn = "done" /\ pcOut = "done"))
    /\ []((resIn = "Ok" \/ resOut = "Ok") => result = "Ok")
    /\ []((resIn = "Err" \/ resOut = "Err") => result \in Errors)
    /\ [][SessionOver => UNCHANGED <<relayIo, pcIn, pcOut>>]_vars

----------------------------------------------------------------------------
\* The disconnect-detection phase of pipe_to_stdout.

Probing == pcOut \in {"probe", "sleep"}

\* C14: a probe is made only from the probe loop, which is entered only by
\* leaving the read loop; once a probe has been made or the probe loop
\* entered, the direction is never in the read loop again, whatever the
\* input-to-transport direction does in between.
C14_ProbeAfterRead ==
    /\ [](probe_log # <<>> => pcOut \in {"probe", "sleep", "done"})
    /\ [][/\ probe_log' # probe_log => (pcOut = "probe" /\ pcOut' # "read")
          /\ (pcOut # "probe" /\ pcOut' = "probe") => pcOut \in {"read", "sleep"}
          /\ rd_pos' # rd_pos => (pcOut = "read" /\ probe_log = <<>>)
          /\ Probing => pcOut' # "read"]_vars

C14_Witness ==
    /\ probe_log = <<"ok">>
    /\ pcOut = "probe"
    /\ waits = 1
    /\ rd_pos > 0
    /\ pcIn = "shutdown"
    /\ stdin_data # <<>>
    /\ result = "running"

\* C19: in the probe loop (entered only with close_on_eof unset) no step
\* reads from the pipe or writes to standard output, the direction stays in
\* the loop or ends, and it ends only by a probe that failed; after a probe
\* nothing more is relayed, so bytes the peer sent after the zero-length read
\* stay unread.
C19_NoReturnFromProbing ==
    /\ [](Probing => ~close_on_eof)
    /\ [][Probing =>
            /\ pcOut' \in {"probe", "sleep", "done"}
            /\ pcOut' = "done" =>
                  /\ probe_log' # probe_log
                  /\ probe_log'[Len(probe_log')] # "ok"]_vars
    /\ [][(Probing \/ probe_log # <<>>) =>
            (stdout' = stdout /\ rd_pos' = rd_pos)]_vars

C19_Witness ==
    /\ pcOut = "done" /\ resOut = "Ok"
    /\ probe_log = <<"ok", "broken_pipe">>
    /\ rd_pos = 1 /\ stdout = <<101>>
    /\ peer_data = PeerStream(MaxPeer)

----------------------------------------------------------------------------
\* Order of the steps of gpg_conn.

\* The descriptor passes every validation: it was opened, its port line is
\* an unsigned 16-bit decimal, and its nonce segment is exactly 16 bytes.
DescriptorValid ==
    /\ file_present
    /\ Utf8Ok(ReadLine(file))
    /\ parse_u16(trim(ReadLine(file))) \in 0..U16_MAX
    /\ NonceSegLen = NONCE_LEN

\* C15: a connect is attempted only for a descriptor that was opened, whose
\* port line parsed and whose nonce is valid, and it goes to the parsed port;
\* a descriptor, parse or nonce-length failure leaves zero connect attempts;
\* a connect is attempted at most once, and its failure is the result.
C15_ValidateBeforeConnect ==
    /\ connect_log # <<>> =>
          (DescriptorValid /\ connect_log[1] = parse_u16(trim(ReadLine(file))))
    /\ (gpc = "returned" /\ ~DescriptorValid) =>
          (result \in Errors /\ connect_log = <<>>)
    /\ Len(connect_log) <= 1
    /\ (gpc = "returned" /\ connect_log # <<>> /\ tlog = <<>>) => result = "IO"

\* The parts of C15 that do not concern the nonce length.
C15_OrderApartFromNonce ==
    /\ connect_log # <<>> =>
          /\ file_present /\ Utf8Ok(ReadLine(file)) /\ n >= 0
          /\ connect_log[1] = parse_u16(trim(ReadLine(file)))
          /\ connect_log[1] \in 0..U16_MAX
    /\ (gpc = "returned" /\ result \in {"ParseInt", "InvalidNonce"}) =>
          connect_log = <<>>
    /\ Len(connect_log) <= 1
    /\ (gpc = "returned" /\ connect_log # <<>> /\ tlog = <<>>) => result = "IO"

\* C16: once the relay has started, or any standard-input byte has been
\* read, the first payload on the connection is nonce_buf whole, 16 bytes
\* written by one operation, and every later payload is bytes of standard
\* input, in order; until the handshake is written nothing is read from
\* standard input or from the connection.
C16_HandshakeFirst ==
    /\ (pcIn # "idle" \/ pcOut # "idle" \/ stdin_data # <<>>) =>
          /\ tlog # <<>>
          /\ tlog[1] = WriteOp(nonce_buf)
          /\ Len(tlog[1].data) = NONCE_LEN
          /\ IsPrefix(Bytes(Tail(tlog)), stdin_data)
    /\ tlog = <<>> =>
          (stdin_data = <<>> /\ rd_pos = 0 /\ pcIn = "idle" /\ pcOut = "idle")
    /\ tlog # <<>> => (tlog[1].op = "write" /\ connect_log # <<>>)

C16_Witness ==
    /\ gpc = "relay"
    /\ n = NONCE_LEN /\ nonce_buf = NonceSeg(NONCE_LEN, 3)
    /\ Len(tlog) = 3
    /\ tlog[1] = WriteOp(nonce_buf)
    /\ Bytes(Tail(tlog)) = stdin_data
    /\ Len(stdin_data) = MaxIn

----------------------------------------------------------------------------
\* Failures of the read loop of pipe_to_stdout.

\* C17: a read of the pipe that failed with broken-pipe or pipe-not-connected
\* has ended the direction and the session with success; a read that failed
\* with any other error, or a failed write to standard output, has ended them
\* with the I/O error. These are failures of the read loop, before any probe.
C17_ReadFailureClasses ==
    /\ out_err \in {"read_broken_pipe", "read_not_connected"} =>
          (pcOut = "done" /\ resOut = "Ok" /\ result = "Ok")
    /\ out_err \in {"read_other", "stdout_write"} =>
          (pcOut = "done" /\ resOut = "Err" /\ result = "IO")
    /\ out_err # "none" => (probe_log = <<>> /\ resIn = "none")

C17_Witness ==
    /\ out_err = "read_not_connected"
    /\ rd_pos = 1 /\ stdout = <<101>>
    /\ pcOut = "done" /\ resOut = "Ok"
    /\ pcIn = "read" /\ stdin_data # <<>>
    /\ result = "Ok"

----------------------------------------------------------------------------
\* The end-of-input signal of stdin_to_pipe.

\* C18: with close_write set and close_on_stdin_eof unset, when the
\* zero-length message is on the pipe every byte read from standard input is
\* on the pipe before it, and no data is written to the pipe after it.
C18_ZeroMessageLast ==
    (close_write /\ ~close_on_stdin_eof) =>
        \A i \in 1..Len(tlog) :
            tlog[i].op = "zero" =>
                /\ Bytes(SubSeq(tlog, 1, i - 1)) = stdin_data
                /\ \A j \in (i + 1)..Len(tlog) : tlog[j].op # "write"

----------------------------------------------------------------------------
\* Termination of ssh_conn at end-of-input.

\* C20: a session whose input direction has ended has returned; and once
\* standard input has reached end-of-input with the pipe still to be shut
\* down, the session eventually returns, wherever pipe_to_stdout is.
C20_EofTerminates ==
    /\ [](pcIn = "done" => SessionOver)
    /\ (pcIn = "shutdown") ~> SessionOver

C20_Witness ==
    /\ result = "Ok"
    /\ pcIn = "done" /\ resIn = "Ok"
    /\ tlog # <<>> /\ tlog[Len(tlog)] = ShutdownOp
    /\ pcOut = "sleep"
    /\ Len(probe_log) = MaxProbes
    /\ resOut = "none"

====
